---- MODULE Spec2Model ----
(***************************************************************************)
(* Voxel-world bookkeeping of the two clone games.                         *)
(*                                                                         *)
(*   src/DeepSeek.py         class World: blocks, visible_blocks,           *)
(*                           add_block, remove_block, is_visible            *)
(*   src/StableDiffusion.py  class StableDiffusionWorld: blocks,            *)
(*                           add_block, remove_block, is_exposed            *)
(*                           generate_chunk, generate_tree,                *)
(*                           update_visible_chunks, rebuild_batch;         *)
(*                           class StableCraftWindow: on_mouse_press,      *)
(*                           on_key_press, update                          *)
(*                                                                         *)
(* A World is driven as an object: a caller issues add_block and           *)
(* remove_block calls one after the other on the dictionaries created at   *)
(* DeepSeek.py lines 76-77.  A call that raises leaves the dictionaries as *)
(* they were at the raise, and the caller may go on calling.               *)
(***************************************************************************)
EXTENDS Integers, FiniteSets, Sequences, TLC

VARIABLES
    blocks,          \* World.blocks: position -> block type (a dict)
    visible_blocks,  \* key set of World.visible_blocks
    sd_blocks,       \* StableDiffusionWorld.blocks
    step,            \* number of adds of the centre-and-neighbours scenario done
    call,            \* the last call: its arguments and how it ended
    player,          \* GameWindow.player: position and view direction
    mouse_locked,    \* GameWindow.mouse_locked
    ray,             \* what the last raycast call returned
    es,              \* the last erdos_straus call: arguments and return value
    sd_visible_blocks,  \* key set of StableDiffusionWorld.visible_blocks
    sd_chunks,       \* key set of StableDiffusionWorld.chunks
    sd_seed,         \* the terrain the noise functions of the world give
    sd_player,       \* StableCraftWindow.player: position, view, number type
    query,           \* the last query made of a World: arguments and result
    body,            \* the player of the window: velocity[1], on_ground, flying
    collided,        \* the last GameWindow.collide call: argument and result
    cv               \* the tracking demo: SharedData, its two threads

vars ==
    <<blocks, visible_blocks, sd_blocks, step, call, player, mouse_locked, ray, es,
      sd_visible_blocks, sd_chunks, sd_seed, sd_player, query, body, collided, cv>>

\* the variables of the GameWindow around a World
window_vars == <<player, mouse_locked, ray>>

\* the variables outside the two worlds and the window
\* the motion of the player of a GameWindow
phys_vars == <<body, collided>>

other_vars ==
    <<es, sd_visible_blocks, sd_chunks, sd_seed, sd_player, query, phys_vars, cv>>

\* the variables that only the queries of a World, the motion of the player
\* and the tracking demo write
rest_vars == <<query, phys_vars, cv>>

\* the variables of a StableCraftWindow besides the block map of its world
sd_window_vars == <<sd_visible_blocks, sd_chunks, sd_seed, sd_player>>

(***************************************************************************)
(* Bounds.  Calls are issued on the positions of Pos: the cell (0,0,0),    *)
(* its six face neighbours, and the cells (x,0,0) for 2 <= x <= XMax.      *)
(* Every other position of the (unbounded) grid stays air.                 *)
(***************************************************************************)
XMax == 2

\* the most blocks of type BRICK the caller keeps in a World at a time
MaxBrick == 1

Abs(n) == IF n < 0 THEN -n ELSE n

Pos ==
    { p \in (-1..XMax) \X (-1..1) \X (-1..1) :
        \/ Abs(p[1]) + Abs(p[2]) + Abs(p[3]) <= 1
        \/ p[2] = 0 /\ p[3] = 0 }

\* two of the keys of BLOCK (DeepSeek.py lines 14-22)
Types == {"GRASS", "BRICK"}

\* two of the block types of StableDiffusion.py (lines 39-49)
SDTypes == {"stone", "dirt"}

(***************************************************************************)
(* FACE_VECTORS, DeepSeek.py lines 25-33.  Python values are tagged with   *)
(* their type: the seventh entry is a tuple of three tuples, not of three  *)
(* ints.                                                                   *)
(***************************************************************************)
PyInt(n) == [tag |-> "int", val |-> n]

PyTuple(s) == [tag |-> "tuple", val |-> s]

FACE_VECTORS ==
    << <<PyInt(1),  PyInt(0),  PyInt(0)>>,
       <<PyInt(0),  PyInt(1),  PyInt(0)>>,
       <<PyInt(0),  PyInt(0),  PyInt(1)>>,
       <<PyInt(0),  PyInt(0),  PyInt(-1)>>,
       <<PyInt(0),  PyInt(-1), PyInt(0)>>,
       <<PyInt(-1), PyInt(0),  PyInt(0)>>,
       <<PyTuple(<<1, 1, 1>>), PyTuple(<<1, -1, 1>>), PyTuple(<<-1, 1, -1>>)>> >>

\* x + dx, y + dy, z + dz are defined when dx, dy, dz are ints; int + tuple
\* raises TypeError
CanAddTo(d) == d[1].tag = "int" /\ d[2].tag = "int" /\ d[3].tag = "int"

\* (x + dx, y + dy, z + dz)
Offset(position, d) ==
    <<position[1] + d[1].val, position[2] + d[2].val, position[3] + d[3].val>>

(***************************************************************************)
(* World.is_visible, DeepSeek.py lines 141-147: "True", "False", or        *)
(* "TypeError" when the loop reaches an entry it cannot add.               *)
(***************************************************************************)
RECURSIVE is_visible_from(_, _, _)
is_visible_from(b, position, i) ==
    IF i > Len(FACE_VECTORS) THEN "False"
    ELSE IF ~CanAddTo(FACE_VECTORS[i]) THEN "TypeError"
    ELSE IF Offset(position, FACE_VECTORS[i]) \notin DOMAIN b THEN "True"
    ELSE is_visible_from(b, position, i + 1)

is_visible(b, position) == is_visible_from(b, position, 1)

\* World.make_visible, lines 149-163 (position is a key of blocks at every call)
make_visible(v, position) == v \cup {position}

\* World.make_hidden, lines 165-169
make_hidden(v, position) == v \ {position}

\* how a call ended: the dictionaries, the exception and the line reached
Outcome(b, v, exc, line) ==
    [blocks |-> b, visible_blocks |-> v, exc |-> exc, line |-> line]

\* self.blocks[position] = block_type
DictSet(b, position, block_type) ==
    [q \in DOMAIN b \cup {position} |-> IF q = position THEN block_type ELSE b[q]]

\* del self.blocks[position]
DictDel(b, position) == [q \in DOMAIN b \ {position} |-> b[q]]

\* a neighbour loop that shows every block instead of re-checking the six
\* neighbours
add_block_loop_show_all(b, v, position, i) == Outcome(b, DOMAIN b, "TypeError", 117)

(***************************************************************************)
(* The neighbour loop of World.add_block, lines 115-124, from entry i of   *)
(* FACE_VECTORS on.                                                        *)
(***************************************************************************)
RECURSIVE add_block_loop(_, _, _, _)
add_block_loop(b, v, position, i) ==
    IF i > Len(FACE_VECTORS) THEN Outcome(b, v, "none", 124)
    ELSE IF ~CanAddTo(FACE_VECTORS[i]) THEN Outcome(b, v, "TypeError", 117)
    ELSE LET neighbor == Offset(position, FACE_VECTORS[i]) IN
         IF neighbor \in DOMAIN b /\ neighbor \in v
         THEN LET r == is_visible(b, neighbor) IN
              IF r = "TypeError" THEN Outcome(b, v, "TypeError", 120)
              ELSE IF r = "False"
                   THEN add_block_loop(b, make_hidden(v, neighbor), position, i + 1)
                   ELSE add_block_loop(b, v, position, i + 1)
         ELSE IF neighbor \in DOMAIN b /\ neighbor \notin v
         THEN LET r == is_visible(b, neighbor) IN
              IF r = "TypeError" THEN Outcome(b, v, "TypeError", 123)
              ELSE IF r = "True"
                   THEN add_block_loop(b, make_visible(v, neighbor), position, i + 1)
                   ELSE add_block_loop(b, v, position, i + 1)
         ELSE add_block_loop(b, v, position, i + 1)

\* an add_block that never shows the block it inserts
add_block_insert_unshown(b, v, position, block_type) ==
    add_block_loop(DictSet(b, position, block_type), v, position, 1)

\* World.add_block after the occupancy test, lines 108-124
add_block_insert(b, v, position, block_type) ==
    LET b1 == DictSet(b, position, block_type)
        r  == is_visible(b1, position)
    IN  IF r = "TypeError" THEN Outcome(b1, v, "TypeError", 111)
        ELSE IF r = "True"
             THEN add_block_loop(b1, make_visible(v, position), position, 1)
             ELSE add_block_loop(b1, v, position, 1)

(***************************************************************************)
(* The neighbour loop of World.remove_block, lines 134-139.                *)
(***************************************************************************)
RECURSIVE remove_block_loop(_, _, _, _)
remove_block_loop(b, v, position, i) ==
    IF i > Len(FACE_VECTORS) THEN Outcome(b, v, "none", 139)
    ELSE IF ~CanAddTo(FACE_VECTORS[i]) THEN Outcome(b, v, "TypeError", 136)
    ELSE LET neighbor == Offset(position, FACE_VECTORS[i]) IN
         IF neighbor \in DOMAIN b /\ neighbor \notin v
         THEN LET r == is_visible(b, neighbor) IN
              IF r = "TypeError" THEN Outcome(b, v, "TypeError", 138)
              ELSE IF r = "True"
                   THEN remove_block_loop(b, make_visible(v, neighbor), position, i + 1)
                   ELSE remove_block_loop(b, v, position, i + 1)
         ELSE remove_block_loop(b, v, position, i + 1)

\* a remove_block that deletes without testing occupancy: KeyError at line 129
remove_block_unguarded(b, v, position) ==
    IF position \notin DOMAIN b THEN Outcome(b, v, "KeyError", 129)
    ELSE remove_block_loop(DictDel(b, position),
                           IF position \in v THEN make_hidden(v, position) ELSE v,
                           position, 1)

\* a remove_block that forgets to look at the neighbours
remove_block_alone(b, v, position) ==
    IF position \in DOMAIN b
    THEN Outcome(DictDel(b, position),
                 IF position \in v THEN make_hidden(v, position) ELSE v,
                 "none", 131)
    ELSE Outcome(b, v, "none", 128)

\* World.remove_block, lines 126-139
remove_block(b, v, position) ==
    IF position \in DOMAIN b
    THEN remove_block_loop(DictDel(b, position),
                           IF position \in v THEN make_hidden(v, position) ELSE v,
                           position, 1)
    ELSE Outcome(b, v, "none", 128)

\* an add_block without the occupancy test of lines 105-106
add_block_overwrite(b, v, position, block_type) ==
    add_block_insert(b, v, position, block_type)

\* an add_block that replaces an occupant: remove_block first, then add
add_block_replace(b, v, position, block_type) ==
    IF position \in DOMAIN b
    THEN LET r == remove_block(b, v, position) IN
         IF r.exc # "none" THEN r
         ELSE add_block_insert(r.blocks, r.visible_blocks, position, block_type)
    ELSE add_block_insert(b, v, position, block_type)

\* World.add_block, lines 103-124
add_block(b, v, position, block_type) ==
    IF position \in DOMAIN b THEN Outcome(b, v, "none", 106)
    ELSE add_block_insert(b, v, position, block_type)

(***************************************************************************)
(* The calls on a World.  call keeps the method last called, the exception *)
(* it raised ("none" when it returned) and the line where it ended.        *)
(***************************************************************************)
Call(op, exc, line) == [op |-> op, exc |-> exc, line |-> line]

\* world.add_block(position, block_type), as it acts on the World
AddBlockCall(position, block_type) ==
    LET r == add_block(blocks, visible_blocks, position, block_type) IN
    /\ blocks' = r.blocks
    /\ visible_blocks' = r.visible_blocks
    /\ call' = Call("add_block", r.exc, r.line)

\* the caller places a block of the second type only while fewer than MaxBrick
\* of them are in the world (a call on an occupied position is always issued)
BrickBudget(position, block_type) ==
    \/ block_type # "BRICK"
    \/ position \in DOMAIN blocks
    \/ Cardinality({q \in DOMAIN blocks : blocks[q] = "BRICK"}) < MaxBrick

\* a caller's world.add_block(position, block_type)
AddBlock(position, block_type) ==
    /\ BrickBudget(position, block_type)
    /\ AddBlockCall(position, block_type)
    /\ UNCHANGED <<sd_blocks, step, window_vars, other_vars>>

\* a caller's world.remove_block(position)
RemoveBlock(position) ==
    LET r == remove_block(blocks, visible_blocks, position) IN
    /\ blocks' = r.blocks
    /\ visible_blocks' = r.visible_blocks
    /\ call' = Call("remove_block", r.exc, r.line)
    /\ UNCHANGED <<sd_blocks, step, window_vars, other_vars>>

(***************************************************************************)
(* World.raycast, lines 171-196.  A point of space is a triple of          *)
(* hundredths of a cell; a direction is a unit vector given in tenths, so  *)
(* that direction * step_size (step_size = 0.1, line 173) is the triple    *)
(* itself, in hundredths.  The samples are exact decimals: the binary      *)
(* representation error of the floats is left out.                         *)
(***************************************************************************)
\* Python's None
None == << >>

\* the number of hundredths in a cell
Hundredths == 100

\* int(x) in place of int(round(x)): truncation toward zero
PyTrunc(c) == IF c >= 0 THEN c \div Hundredths ELSE -((-c) \div Hundredths)

\* int(round(x)), lines 178-180: Python 3 rounds to the nearest integer, a tie
\* to the even one
PyRound(c) ==
    LET q == c \div Hundredths
        r == c % Hundredths
    IN  IF 2 * r < Hundredths THEN q
        ELSE IF 2 * r > Hundredths THEN q + 1
        ELSE IF q % 2 = 0 THEN q ELSE q + 1

\* the block position of a point, lines 177-181
RoundPos(current) == <<PyRound(current[1]), PyRound(current[2]), PyRound(current[3])>>

\* current after k rounds of current += direction * step_size, lines 174 and
\* 192-194
Sample(start, direction, k) ==
    <<start[1] + k * direction[1], start[2] + k * direction[2],
      start[3] + k * direction[3]>>

\* a prev taken one step forward instead of one step backward
prev_forward(current, direction) == RoundPos(Sample(current, direction, 1))

\* prev, lines 185-189: the block position one step backward
prev(current, direction) ==
    RoundPos(<<current[1] - direction[1], current[2] - direction[2],
               current[3] - direction[3]>>)

\* a loop that runs ten samples too many
RaySteps_long(max_distance) == max_distance * 10 + 10

\* int(max_distance / step_size), line 175, for a whole max_distance
RaySteps(max_distance) == max_distance * 10

\* what raycast returns, with the number of samples it looked at
RayResult(hit, adjacent, samples) ==
    [hit |-> hit, adjacent |-> adjacent, samples |-> samples]

\* the loop of lines 175-194 over the iterations lo .. hi-1: the first of them
\* whose block_pos is in self.blocks, hi when there is none.  The iterations
\* are looked at in order, the first half before the second.
RECURSIVE first_hit(_, _, _, _, _)
first_hit(b, start, direction, lo, hi) ==
    IF hi - lo <= 1
    THEN IF lo < hi /\ RoundPos(Sample(start, direction, lo)) \in DOMAIN b
         THEN lo ELSE hi
    ELSE IF first_hit(b, start, direction, lo, (lo + hi) \div 2) < (lo + hi) \div 2
         THEN first_hit(b, start, direction, lo, (lo + hi) \div 2)
         ELSE first_hit(b, start, direction, (lo + hi) \div 2, hi)

\* lines 182-190 and 196: what raycast returns when iteration k is the first
\* to find a block (k = n: none did)
raycast_return(start, direction, n, k) ==
    IF k = n THEN RayResult(None, None, n)
    ELSE RayResult(RoundPos(Sample(start, direction, k)),
                   prev(Sample(start, direction, k), direction), k + 1)

\* World.raycast(start, direction, max_distance), lines 171-196
raycast(b, start, direction, max_distance) ==
    raycast_return(start, direction, RaySteps(max_distance),
                   first_hit(b, start, direction, 0, RaySteps(max_distance)))

\* Player.__init__, lines 203-205, and get_view_direction for rotation [0, 0]
PlayerAt(position, direction) == [position |-> position, direction |-> direction]

(***************************************************************************)
(* xyzn.py: erdos_straus(n, max_x), lines 1-36.  The floats of the program *)
(* are modelled by the fractions they stand for.  Where the program        *)
(* subtracts two floats whose exact values are equal (rem - 1/y with       *)
(* 4/n = 1/x + 1/y) the rounding errors of 4/n, 1/x and 1/y decide whether *)
(* the difference is 0, below 0 or a residue of the order of 1e-17 above   *)
(* 0, and with it whether int(1 / rem) is y or y - 1: the model takes      *)
(* either outcome, unless n and x are powers of two, when 4/n, 1/x and rem *)
(* are exact.                                                              *)
(***************************************************************************)
\* the largest n and the largest max_x erdos_straus is called with
ESMaxN == 9

ESMaxX == 7

\* round(1 / residue): an integer of the order of 1e16, for which the model
\* writes a smaller one
HugeZ == 1000000

RECURSIVE IsPow2(_)
IsPow2(k) == k = 1 \/ (k > 1 /\ k % 2 = 0 /\ IsPow2(k \div 2))

\* an erdos_straus call: its arguments, whether it has returned, and what
ESCall(n, max_x, done, ret) == [n |-> n, max_x |-> max_x, done |-> done, ret |-> ret]

\* the x for which rem = 4/n - 1/x is 1/y for a whole y, computed inexactly
ResidueAt(n, max_x) ==
    { x \in (n \div 4 + 1)..max_x :
        /\ 4 * x > n
        /\ (n * x) % (4 * x - n) = 0
        /\ ~(IsPow2(n) /\ IsPow2(x)) }

\* the loop of lines 23-35 from y on: inv_z = ((4x - n)y - nx) / (nxy)
RECURSIVE es_y_loop(_, _, _, _, _)
es_y_loop(n, x, y, y_last, residue) ==
    IF y > y_last THEN None
    ELSE IF (4 * x - n) * y - n * x < 0
         THEN es_y_loop(n, x, y + 1, y_last, residue)
    ELSE IF (4 * x - n) * y - n * x = 0
         THEN IF residue THEN <<x, y, HugeZ>>
              ELSE es_y_loop(n, x, y + 1, y_last, residue)
    ELSE IF (n * x * y) % ((4 * x - n) * y - n * x) = 0
         THEN <<x, y, (n * x * y) \div ((4 * x - n) * y - n * x)>>
         ELSE es_y_loop(n, x, y + 1, y_last, residue)

\* y_min, line 21: int(1 / rem) + 1 with 1 / rem = nx / (4x - n)
es_y_min(n, x, residue) ==
    IF (n * x) % (4 * x - n) = 0 /\ residue
    THEN (n * x) \div (4 * x - n)
    ELSE (n * x) \div (4 * x - n) + 1

\* y_max, line 22: int(2 / rem) + 1
es_y_max(n, x) == (2 * n * x) \div (4 * x - n) + 1

PyMin(a, b) == IF a < b THEN a ELSE b

\* the loop of lines 10-35 from x on; R holds the x where the float residue
\* comes out above 0.  1/x >= target (line 11) and rem <= 0 (line 17) are
\* 4x <= n.
RECURSIVE es_x_loop(_, _, _, _)
es_x_loop(n, max_x, x, R) ==
    IF x > max_x THEN None
    ELSE IF 4 * x <= n THEN es_x_loop(n, max_x, x + 1, R)
    ELSE LET r == es_y_loop(n, x, es_y_min(n, x, x \in R),
                            PyMin(es_y_max(n, x), max_x), x \in R)
         IN  IF r # None THEN r ELSE es_x_loop(n, max_x, x + 1, R)

\* erdos_straus(n, max_x), lines 1-36
erdos_straus(n, max_x, R) == es_x_loop(n, max_x, n \div 4 + 1, R)

\* a call of erdos_straus returns
ErdosStraus ==
    /\ ~es.done
    /\ \E R \in SUBSET ResidueAt(es.n, es.max_x) :
           es' = ESCall(es.n, es.max_x, TRUE, erdos_straus(es.n, es.max_x, R))
    /\ UNCHANGED <<blocks, visible_blocks, sd_blocks, step, call, window_vars,
                   sd_window_vars, rest_vars>>

(***************************************************************************)
(* The player of a StableCraftWindow, StableDiffusion.py lines 315-321.    *)
(* The position is in hundredths of a cell, the direction in tenths.       *)
(* is_float says whether position[0] and position[2] hold Python floats:   *)
(* Player.__init__ stores the integers of (0, 20, 0), and the first        *)
(* "position[0] += move_vec[0] * dt * speed" of update (line 532) makes    *)
(* them floats for good.                                                   *)
(***************************************************************************)
SDPlayerAt(position, direction, is_float) ==
    [position |-> position, direction |-> direction, is_float |-> is_float]

\* Player.__init__, lines 316-318: position (0, 20, 0), rotation [0, 0]
SDPlayerStart == SDPlayerAt(<<0, 20 * Hundredths, 0>>, <<10, 0, 0>>, FALSE)

\* no StableCraftWindow has been constructed
NoStableCraftWindow ==
    /\ sd_visible_blocks = {}
    /\ sd_chunks = {}
    /\ sd_seed = "none"
    /\ sd_player = SDPlayerStart

\* a query of a World: the method called, its arguments, what it returned
Query(op, args, ret) == [op |-> op, args |-> args, ret |-> ret]

\* no query has been made
NoQuery == query = Query("none", << >>, None)

\* Player.__init__, lines 206-208: velocity [0, 0, 0], on_ground and flying
\* False.  velocity is the vertical velocity[1], in hundredths of a cell
Body(velocity, on_ground, flying) ==
    [velocity |-> velocity, on_ground |-> on_ground, flying |-> flying]

\* a call of GameWindow.collide: the position it was given, the one it
\* returned, and the line of the return statement
Collide(new_pos, ret, line) == [new_pos |-> new_pos, ret |-> ret, line |-> line]

\* the player of a GameWindow has not moved
NoPhysics ==
    /\ body = Body(0, FALSE, FALSE)
    /\ collided = Collide(None, None, 0)

\* a local of display that has not been assigned yet
NotRead == -1

\* SharedData.__init__, CVGL.py lines 24-35, before main starts the OpenCV
\* thread.  red and blue hold the number of the frame that their
\* coordinates come from, 0 for the default (0.5, 0.5); lock is the holder
\* of shared.lock; thread and main are the places of the two threads, frames
\* counts the frames read, opened is what cap.isOpened() returned, leave is
\* set once glutLeaveMainLoop has been called, snap is what display has read
\* (lines 292-293 and 297): the frames its red and its blue come from, and
\* cam_ok
NoTracker ==
    cv = [lock |-> "free", red |-> 0, blue |-> 0, camera_ok |-> TRUE, running |-> TRUE,
          show_help |-> FALSE, thread |-> "not started", main |-> "init", frames |-> 0,
          opened |-> "unknown", leave |-> FALSE,
          snap |-> [red |-> NotRead, blue |-> NotRead, cam_ok |-> TRUE]]

\* World.__init__, lines 76-78, before build_world; GameWindow.__init__, lines
\* 247-250
Init ==
    /\ blocks = << >>
    /\ visible_blocks = {}
    /\ sd_blocks = << >>
    /\ step = 0
    /\ call = Call("__init__", "none", 78)
    /\ player = PlayerAt(<<0, 0, 0>>, <<10, 0, 0>>)
    /\ mouse_locked = TRUE
    /\ ray = RayResult(None, None, 0)
    /\ es = ESCall(5, ESMaxX, FALSE, None)
    /\ NoStableCraftWindow
    /\ NoQuery
    /\ NoPhysics
    /\ NoTracker

Next ==
    \/ \E p \in Pos, t \in Types : AddBlock(p, t)
    \/ \E p \in Pos : RemoveBlock(p)

Spec == Init /\ [][Next]_vars

(***************************************************************************)
(* StableDiffusionWorld, src/StableDiffusion.py.                           *)
(***************************************************************************)
\* StableDiffusionWorld.is_exposed, lines 292-304
is_exposed(b, pos) ==
    LET neighbors == << <<pos[1] + 1, pos[2], pos[3]>>, <<pos[1] - 1, pos[2], pos[3]>>,
                        <<pos[1], pos[2] + 1, pos[3]>>, <<pos[1], pos[2] - 1, pos[3]>>,
                        <<pos[1], pos[2], pos[3] + 1>>, <<pos[1], pos[2], pos[3] - 1>> >>
    IN  IF \E k \in 1..Len(neighbors) : neighbors[k] \notin DOMAIN b
        THEN "True" ELSE "False"

\* StableDiffusionWorld.add_block, lines 306-308
sd_add_block(b, pos, block_type) == DictSet(b, pos, block_type)

\* StableDiffusionWorld.remove_block, lines 310-313
sd_remove_block(b, pos) == IF pos \in DOMAIN b THEN DictDel(b, pos) ELSE b

\* a caller's world.add_block(pos, block_type) on a StableDiffusionWorld
SDAddBlock(pos, block_type) ==
    /\ sd_blocks' = sd_add_block(sd_blocks, pos, block_type)
    /\ call' = Call("sd_add_block", "none", 308)
    /\ UNCHANGED <<blocks, visible_blocks, step, window_vars, other_vars>>

\* a caller's world.remove_block(pos) on a StableDiffusionWorld
SDRemoveBlock(pos) ==
    /\ sd_blocks' = sd_remove_block(sd_blocks, pos)
    /\ call' = Call("sd_remove_block", "none", IF pos \in DOMAIN sd_blocks THEN 313 ELSE 312)
    /\ UNCHANGED <<blocks, visible_blocks, step, window_vars, other_vars>>

NextSD ==
    \/ \E p \in Pos, t \in SDTypes : SDAddBlock(p, t)
    \/ \E p \in Pos : SDRemoveBlock(p)

SpecSD == Init /\ [][NextSD]_vars

(***************************************************************************)
(* The centre-and-six-neighbours scenario: seven add_block calls into an   *)
(* empty World, the block type of each left to the caller.                 *)
(***************************************************************************)
Centre == <<0, 0, 0>>

Scenario ==
    << Centre, <<1, 0, 0>>, <<0, 1, 0>>, <<0, 0, 1>>,
       <<-1, 0, 0>>, <<0, -1, 0>>, <<0, 0, -1>> >>

ScenarioAdd ==
    /\ step < Len(Scenario)
    /\ \E t \in Types : AddBlockCall(Scenario[step + 1], t)
    /\ step' = step + 1
    /\ UNCHANGED <<sd_blocks, window_vars, other_vars>>

SpecScenario == Init /\ [][ScenarioAdd]_vars

(***************************************************************************)
(* The GameWindow around a World, DeepSeek.py lines 242-339: the player    *)
(* stands and looks as one of the views of RayViews says, clicks, and      *)
(* presses ESC.                                                            *)
(***************************************************************************)
\* the cells the caller fills before the player clicks
RayPos == { p \in Pos : p[2] >= 0 /\ p[3] = 0 }

\* the views: a position of the player (hundredths) and a unit direction
\* (tenths)
RayViews ==
    { PlayerAt(<<0, 0, 0>>, <<10, 0, 0>>),
      PlayerAt(<<-1073, 0, 0>>, <<10, 0, 0>>),
      PlayerAt(<<233, 0, 0>>, <<-10, 0, 0>>),
      PlayerAt(<<3, 133, 0>>, <<0, -10, 0>>),
      PlayerAt(<<-91, -23, 0>>, <<6, 8, 0>>),
      PlayerAt(<<3, 0, 143>>, <<0, 0, -10>>) }

\* max_distance=10, line 171
DefaultMaxDistance == 10

\* the values of max_distance raycast is called with
RayDistances == {1, DefaultMaxDistance}

\* an on_mouse_press that places its block on the hit position
on_mouse_press_on_hit(b, v, r, button) ==
    IF button = "LEFT" /\ r.hit # None THEN remove_block(b, v, r.hit)
    ELSE IF button = "RIGHT" /\ r.hit # None
    THEN add_block_overwrite(b, v, r.hit, "BRICK")
    ELSE Outcome(b, v, "none", 315)

\* lines 312-315 of on_mouse_press, r being what raycast returned
on_mouse_press(b, v, r, button) ==
    IF button = "LEFT" /\ r.hit # None THEN remove_block(b, v, r.hit)
    ELSE IF button = "RIGHT" /\ r.adjacent # None
    THEN add_block(b, v, r.adjacent, "BRICK")
    ELSE Outcome(b, v, "none", 315)

\* GameWindow.on_mouse_press, lines 302-315
OnMousePress(button) ==
    IF ~mouse_locked
    THEN /\ mouse_locked' = TRUE
         /\ call' = Call("on_mouse_press", "none", 307)
         /\ UNCHANGED <<blocks, visible_blocks, sd_blocks, step, player, ray, other_vars>>
    ELSE \E r \in {raycast(blocks, player.position, player.direction,
                           DefaultMaxDistance)} :
         \E o \in {on_mouse_press(blocks, visible_blocks, r, button)} :
             /\ button = "RIGHT" /\ r.adjacent # None =>
                    BrickBudget(r.adjacent, "BRICK")
             /\ ray' = r
             /\ blocks' = o.blocks
             /\ visible_blocks' = o.visible_blocks
             /\ call' = Call("on_mouse_press", o.exc, o.line)
             /\ UNCHANGED <<sd_blocks, step, player, mouse_locked, other_vars>>

\* GameWindow.on_key_press with key.ESCAPE, lines 336-338
OnKeyEscape ==
    /\ mouse_locked' = FALSE
    /\ call' = Call("on_key_press", "none", 338)
    /\ UNCHANGED <<blocks, visible_blocks, sd_blocks, step, player, ray, other_vars>>

\* a GameWindow whose player stands and looks as one of the views says
InitRay ==
    /\ blocks = << >>
    /\ visible_blocks = {}
    /\ sd_blocks = << >>
    /\ step = 0
    /\ call = Call("__init__", "none", 250)
    /\ player \in RayViews
    /\ mouse_locked = TRUE
    /\ ray = RayResult(None, None, 0)
    /\ es = ESCall(5, ESMaxX, FALSE, None)
    /\ NoStableCraftWindow
    /\ NoQuery
    /\ NoPhysics
    /\ NoTracker

NextRay ==
    \/ \E p \in RayPos : AddBlock(p, "GRASS")
    \/ \E button \in {"LEFT", "RIGHT"} : OnMousePress(button)
    \/ OnKeyEscape

SpecRay == InitRay /\ [][NextRay]_vars

(***************************************************************************)
(* The queries of a World, DeepSeek.py: raycast (lines 171-196),           *)
(* is_visible (lines 141-147) and is_block_at (lines 198-200), called by   *)
(* a caller on a World that the centre-and-neighbours scenario fills.      *)
(* Each is given with the dictionaries it leaves: none of the three has a  *)
(* statement that writes self.blocks or self.visible_blocks.               *)
(***************************************************************************)
\* the dictionaries a query leaves, and what it returns
Answer(b, v, ret) == [blocks |-> b, visible_blocks |-> v, ret |-> ret]

\* an is_visible that keeps visible_blocks up to date with what it finds
is_visible_call_caching(b, v, position) ==
    Answer(b,
           IF is_visible(b, position) = "True" THEN v \cup {position}
           ELSE v \ {position},
           is_visible(b, position))

\* a call of World.raycast, lines 171-196
raycast_call(b, v, start, direction, max_distance) ==
    Answer(b, v, raycast(b, start, direction, max_distance))

\* a call of World.is_visible, lines 141-147
is_visible_call(b, v, position) == Answer(b, v, is_visible(b, position))

\* World.is_block_at, lines 198-200
is_block_at(b, pos) == IF pos \in DOMAIN b THEN "True" ELSE "False"

\* a call of World.is_block_at
is_block_at_call(b, v, pos) == Answer(b, v, is_block_at(b, pos))

\* the positions queried: the centre, and the first and the last neighbour
\* the scenario adds
QueryPos == { Scenario[1], Scenario[2], Scenario[Len(Scenario)] }

\* a caller's world.raycast(start, direction)
QueryRaycast(view) ==
    /\ \E a \in { raycast_call(blocks, visible_blocks, view.position, view.direction,
                                DefaultMaxDistance) } :
           /\ blocks' = a.blocks
           /\ visible_blocks' = a.visible_blocks
           /\ query' = Query("raycast", <<view.position, view.direction>>, a.ret)
           /\ call' = Call("raycast", "none", IF a.ret.hit = None THEN 196 ELSE 190)
    /\ UNCHANGED <<sd_blocks, step, window_vars, es, sd_window_vars, phys_vars, cv>>

\* a caller's world.is_visible(position)
QueryIsVisible(position) ==
    /\ \E a \in { is_visible_call(blocks, visible_blocks, position) } :
           /\ blocks' = a.blocks
           /\ visible_blocks' = a.visible_blocks
           /\ query' = Query("is_visible", <<position>>, a.ret)
           /\ call' = Call("is_visible", IF a.ret = "TypeError" THEN "TypeError" ELSE "none",
                           IF a.ret = "True" THEN 146
                           ELSE IF a.ret = "False" THEN 147 ELSE 145)
    /\ UNCHANGED <<sd_blocks, step, window_vars, es, sd_window_vars, phys_vars, cv>>

\* a caller's world.is_block_at(pos)
QueryIsBlockAt(pos) ==
    /\ \E a \in { is_block_at_call(blocks, visible_blocks, pos) } :
           /\ blocks' = a.blocks
           /\ visible_blocks' = a.visible_blocks
           /\ query' = Query("is_block_at", <<pos>>, a.ret)
           /\ call' = Call("is_block_at", "none", 200)
    /\ UNCHANGED <<sd_blocks, step, window_vars, es, sd_window_vars, phys_vars, cv>>

NextQuery ==
    \/ ScenarioAdd
    \/ \E view \in { PlayerAt(<<0, 0, 0>>, <<10, 0, 0>>),
                      PlayerAt(<<233, 0, 0>>, <<-10, 0, 0>>),
                      PlayerAt(<<3, 133, 0>>, <<0, -10, 0>>) } : QueryRaycast(view)
    \/ \E position \in QueryPos : QueryIsVisible(position)
    \/ \E pos \in QueryPos : QueryIsBlockAt(pos)

SpecQuery == Init /\ [][NextQuery]_vars

(***************************************************************************)
(* The motion of the player of a GameWindow, DeepSeek.py lines 203-211 and *)
(* 326-414: update ticks, SPACE and TAB.  Lengths are in hundredths of a   *)
(* cell and computed exactly, so a velocity of -0.01 is -1 (the floats of  *)
(* the program differ from this where a sum lands on a tie of round or on  *)
(* the face of a block, which the runs the claims are about do not).  The  *)
(* horizontal step of a tick, move_vec * dt * 5 (lines 392-394), is an     *)
(* input of the tick: the stride.                                          *)
(***************************************************************************)
\* WORLD_HALF = 30, line 11
WORLD_HALF == 30

\* BLOCK_HALF_SIZE = 0.5, line 10
BLOCK_HALF_SIZE == 50

\* self.height = 1.8 and self.width = 0.6, lines 210-211
PlayerHeight == 180

PlayerWidth == 60

\* the gravity of a tick, line 387; the terminal velocity, line 388; the
\* velocity of a jump, line 333; ground_level, line 402
Gravity == 1

TerminalVelocity == -50

ground_level == -100

PyMax(a, b) == IF a > b THEN a ELSE b

\* the test of lines 372-374: the player's box with its feet at new_pos and
\* the cube of the block at the cell (bx, by, bz) overlap
BoxesIntersect(new_pos, bx, by, bz) ==
    LET w == PlayerWidth \div 2
        h == PlayerHeight
    IN  /\ new_pos[1] - w < bx * Hundredths + BLOCK_HALF_SIZE
        /\ new_pos[1] + w > bx * Hundredths - BLOCK_HALF_SIZE
        /\ new_pos[2] < by * Hundredths + BLOCK_HALF_SIZE
        /\ new_pos[2] + h > by * Hundredths - BLOCK_HALF_SIZE
        /\ new_pos[3] - w < bz * Hundredths + BLOCK_HALF_SIZE
        /\ new_pos[3] + w > bz * Hundredths - BLOCK_HALF_SIZE

\* the cells the loops of lines 357-362 visit
CollideCells(new_pos) ==
    { <<PyRound(new_pos[1] + dx * Hundredths),
        PyRound(new_pos[2] + dy * Hundredths),
        PyRound(new_pos[3] + dz * Hundredths)>> : dx \in -1..1, dy \in -1..1, dz \in -1..1 }

\* GameWindow.collide, lines 347-379: the player's position (line 378) when
\* a visited cell holds a block that the box at new_pos overlaps, else
\* new_pos (line 379)
collide(b, position, new_pos) ==
    IF \E c \in CollideCells(new_pos) :
           is_block_at(b, c) = "True" /\ BoxesIntersect(new_pos, c[1], c[2], c[3])
    THEN Collide(new_pos, position, 378)
    ELSE Collide(new_pos, new_pos, 379)

\* what a tick leaves: the player's position and body, and the collide call
Ticked(position, bd, c) == [position |-> position, body |-> bd, collided |-> c]

\* lines 408-409
ClampToWorld(c) == PyMax(-WORLD_HALF * Hundredths, PyMin(WORLD_HALF * Hundredths, c))

\* an update that leaves out the clamping of lines 402-409
update_unclamped(b, position, bd, stride) ==
    LET v == IF bd.flying THEN bd.velocity
             ELSE PyMax(bd.velocity - Gravity, TerminalVelocity)
        new_pos == <<position[1] + stride[1], position[2] + v, position[3] + stride[2]>>
    IN  Ticked(collide(b, position, new_pos).ret, Body(v, FALSE, bd.flying),
               collide(b, position, new_pos))

\* GameWindow.update, lines 381-414
update(b, position, bd, stride) ==
    LET v == IF bd.flying THEN bd.velocity
             ELSE PyMax(bd.velocity - Gravity, TerminalVelocity)
        new_pos == <<position[1] + stride[1], position[2] + v, position[3] + stride[2]>>
        c == collide(b, position, new_pos)
        landed == c.ret[2] < ground_level
    IN  Ticked(<<ClampToWorld(c.ret[1]),
                 IF landed THEN ground_level ELSE c.ret[2],
                 ClampToWorld(c.ret[3])>>,
               Body(IF landed THEN 0 ELSE v, landed, bd.flying),
               c)

\* the player flies no higher than PhysYMax cells, and walks only within
\* PhysWalk cells of the edge of the world
PhysYMax == 1

PhysWalk == 1

\* a clock tick: GameWindow.update(dt)
Update(stride) ==
    /\ player.position[2] < PhysYMax * Hundredths
    /\ stride # <<0, 0>> => player.position[1] >= (WORLD_HALF - PhysWalk) * Hundredths
    /\ \E t \in { update(blocks, player.position, body, stride) } :
           /\ player' = PlayerAt(t.position, player.direction)
           /\ body' = t.body
           /\ collided' = t.collided
    /\ call' = Call("update", "none", 414)
    /\ UNCHANGED <<blocks, visible_blocks, sd_blocks, step, mouse_locked, ray, es,
                   sd_window_vars, query, cv>>

\* GameWindow.on_key_press with key.SPACE, lines 331-333: velocity[1] = 0.15
KeySpace ==
    /\ body' = IF body.on_ground \/ body.flying
               THEN Body(15, body.on_ground, body.flying)
               ELSE body
    /\ call' = Call("on_key_press", "none", 333)
    /\ UNCHANGED <<blocks, visible_blocks, sd_blocks, step, window_vars, es,
                   sd_window_vars, query, collided, cv>>

\* GameWindow.on_key_press with key.TAB, lines 334-335
KeyTab ==
    /\ body' = Body(body.velocity, body.on_ground, ~body.flying)
    /\ call' = Call("on_key_press", "none", 335)
    /\ UNCHANGED <<blocks, visible_blocks, sd_blocks, step, window_vars, es,
                   sd_window_vars, query, collided, cv>>

\* the dictionaries of a World
WorldOf(b, v) == [blocks |-> b, visible_blocks |-> v]

\* the adds of lines 86-87 for the columns i..n of the square of columns
\* xlo..xhi by zlo..zhi, a raise of add_block not stopping the caller
RECURSIVE build_ground(_, _, _, _, _, _)
build_ground(w, xlo, zlo, nz, i, n) ==
    IF i > n THEN w
    ELSE LET x == xlo + ((i - 1) \div nz)
             z == zlo + ((i - 1) % nz)
             g == add_block(w.blocks, w.visible_blocks, <<x, -1, z>>, "GRASS")
             s == add_block(g.blocks, g.visible_blocks, <<x, -2, z>>, "STONE")
         IN  build_ground(WorldOf(s.blocks, s.visible_blocks), xlo, zlo, nz, i + 1, n)

\* the ground of World.build_world, lines 81-87, as far as it is within
\* reach of a player in the column (x, z): the columns at most one away,
\* which are all that collide visits from there
build_world(x, z) ==
    LET xlo == PyMax(x - 1, -WORLD_HALF)
        xhi == PyMin(x + 1, WORLD_HALF)
        zlo == PyMax(z - 1, -WORLD_HALF)
        zhi == PyMin(z + 1, WORLD_HALF)
    IN  build_ground(WorldOf(<< >>, {}), xlo, zlo, zhi - zlo + 1, 1,
                     (xhi - xlo + 1) * (zhi - zlo + 1))

\* a GameWindow: its world and where its player stands
Game(w, position) == [world |-> w, position |-> position]

\* a GameWindow over the game g
InitGame(g) ==
    /\ blocks = g.world.blocks
    /\ visible_blocks = g.world.visible_blocks
    /\ player = PlayerAt(g.position, <<10, 0, 0>>)
    /\ sd_blocks = << >>
    /\ step = 0
    /\ call = Call("__init__", "none", 250)
    /\ mouse_locked = TRUE
    /\ ray = RayResult(None, None, 0)
    /\ es = ESCall(5, ESMaxX, FALSE, None)
    /\ NoStableCraftWindow
    /\ NoQuery
    /\ NoPhysics
    /\ NoTracker

\* the games the ticks start from: the player at (0,0,0) on the ground of
\* build_world below a block at head height, and near the edge of a world
\* whose ground there has been removed
InitPhys ==
    \E g \in { Game(LET w == build_world(0, 0)
                         r == add_block(w.blocks, w.visible_blocks, <<0, 2, 0>>, "STONE")
                     IN  WorldOf(r.blocks, r.visible_blocks),
                     <<0, 0, 0>>),
                Game(WorldOf(<< >>, {}), <<WORLD_HALF * Hundredths - 4, 0, 0>>) } :
        InitGame(g)

\* the strides of a tick: no key held, and S held at yaw 0 with dt = 0.016
NextPhys ==
    \/ \E stride \in { <<0, 0>>, <<8, 0>> } : Update(stride)
    \/ KeySpace
    \/ KeyTab

SpecPhys == InitPhys /\ [][NextPhys]_vars

\* a non-flying player at (0,0,0) on the ground of build_world; the clock
\* of pyglet calls update again and again (schedule_interval)
InitFall == InitGame(Game(build_world(0, 0), <<0, 0, 0>>))

Tick == \E stride \in {<<0, 0>>} : Update(stride)

NextFall ==
    \/ Tick
    \/ KeySpace

SpecFall == InitFall /\ [][NextFall]_vars /\ WF_vars(Tick)

(***************************************************************************)
(* The tracking demo, CVGL.py: the OpenCV thread (opencv_thread_func,      *)
(* lines 42-128) and the main thread, which runs the GLUT callbacks        *)
(* display (lines 282-331), keyboard (351-371) and close (373-374) inside  *)
(* glutMainLoop (main, lines 377-398).  A step is a statement; a thread    *)
(* that wants shared.lock waits while the other holds it.                  *)
(***************************************************************************)
\* a while loop on shared.running that never ends
wait_loop_forever(c) == [c EXCEPT !.thread = "sleep"]

\* lines 48-50: while shared.running: time.sleep(0.1), then return
wait_loop(c) ==
    IF c.running THEN [c EXCEPT !.thread = "sleep"] ELSE [c EXCEPT !.thread = "done"]

(***************************************************************************)
(* One step of opencv_thread_func from the place c.thread.  opened is what *)
(* cap.isOpened() returns, ret what cap.read() returns, q whether          *)
(* cv2.waitKey sees the q key.  A step that waits for the lock leaves c    *)
(* as it is.  At "masks" the names lines 70-71 read are looked up among    *)
(* the names bound by then (lines 43, 53-58, 61, 65-67).                   *)
(***************************************************************************)
opencv_thread_func(c, opened, ret, q) ==
    CASE c.thread = "open" ->
             IF opened THEN [c EXCEPT !.opened = "yes", !.thread = "loop"]
             ELSE [c EXCEPT !.opened = "no", !.thread = "fail_lock"]
      [] c.thread = "fail_lock" ->
             IF c.lock = "free" THEN [c EXCEPT !.lock = "opencv", !.thread = "fail_write"]
             ELSE c
      [] c.thread = "fail_write" ->
             [c EXCEPT !.camera_ok = FALSE, !.lock = "free", !.thread = "wait"]
      [] c.thread = "wait" -> wait_loop(c)
      [] c.thread = "sleep" -> [c EXCEPT !.thread = "wait"]
      [] c.thread = "loop" ->
             IF c.running THEN [c EXCEPT !.thread = "read"]
             ELSE [c EXCEPT !.thread = "release"]
      [] c.thread = "read" ->
             IF ret THEN [c EXCEPT !.frames = c.frames + 1, !.thread = "masks"]
             ELSE [c EXCEPT !.thread = "release"]
      [] c.thread = "masks" ->
             IF { "hsv", "lower_red1", "upper_red1", "lower_red2", "upper_red2" }
                    \subseteq { "cap", "lower_red", "upper_red", "lower_green",
                                "upper_green", "lower_blue", "upper_blue", "ret",
                                "frame", "h", "w", "hsv" }
             THEN [c EXCEPT !.thread = "write_lock"]
             ELSE [c EXCEPT !.thread = "raised"]
      [] c.thread = "write_lock" ->
             IF c.lock = "free" THEN [c EXCEPT !.lock = "opencv", !.thread = "write_red"]
             ELSE c
      [] c.thread = "write_red" -> [c EXCEPT !.red = c.frames, !.thread = "write_blue"]
      [] c.thread = "write_blue" ->
             [c EXCEPT !.blue = c.frames, !.lock = "free", !.thread = "show"]
      [] c.thread = "show" ->
             IF q THEN [c EXCEPT !.running = FALSE, !.thread = "release"]
             ELSE [c EXCEPT !.thread = "loop"]
      [] c.thread = "release" -> [c EXCEPT !.leave = TRUE, !.thread = "done"]
      [] OTHER -> c

\* a display that reads without taking shared.lock
display_unlocked(c) ==
    CASE c.main = "loop" -> [c EXCEPT !.main = "d_red"]
      [] c.main = "d_red" -> [c EXCEPT !.snap.red = c.red, !.main = "d_blue"]
      [] c.main = "d_blue" -> [c EXCEPT !.snap.blue = c.blue, !.main = "d_rest"]
      [] c.main = "d_rest" -> [c EXCEPT !.snap.cam_ok = c.camera_ok, !.main = "loop"]
      [] OTHER -> c

\* one step of display, lines 291-297: take the lock, read red, read blue,
\* read the toggles and camera_ok and give the lock back
display(c) ==
    CASE c.main = "loop" ->
             IF c.lock = "free" THEN [c EXCEPT !.lock = "main", !.main = "d_red"] ELSE c
      [] c.main = "d_red" -> [c EXCEPT !.snap.red = c.red, !.main = "d_blue"]
      [] c.main = "d_blue" -> [c EXCEPT !.snap.blue = c.blue, !.main = "d_rest"]
      [] c.main = "d_rest" ->
             [c EXCEPT !.snap.cam_ok = c.camera_ok, !.lock = "free", !.main = "loop"]
      [] OTHER -> c

\* main, lines 392-398: start the thread and enter glutMainLoop; after the
\* loop clear running, join the thread (it tests running every 0.1 s, the
\* timeout is 1 s) and exit
main(c) ==
    CASE c.main = "init" -> [c EXCEPT !.thread = "open", !.main = "loop"]
      [] c.main = "loop" /\ c.leave -> [c EXCEPT !.main = "left"]
      [] c.main = "left" -> [c EXCEPT !.running = FALSE, !.main = "join"]
      [] c.main = "join" /\ c.thread \in {"done", "raised"} -> [c EXCEPT !.main = "exited"]
      [] OTHER -> c

\* everything but the tracking demo
no_tracker_vars ==
    <<blocks, visible_blocks, sd_blocks, step, call, window_vars, es, sd_window_vars,
      query, phys_vars>>

\* the OpenCV thread takes a step
OpenCVThread ==
    /\ \E opened \in BOOLEAN, ret \in BOOLEAN, q \in BOOLEAN :
           cv' = opencv_thread_func(cv, opened, ret, q)
    /\ cv' # cv
    /\ UNCHANGED no_tracker_vars

\* GLUT calls display, or display goes on
Display ==
    /\ cv.main = "loop" => ~cv.leave
    /\ cv' = display(cv)
    /\ cv' # cv
    /\ UNCHANGED no_tracker_vars

\* GLUT calls keyboard between two callbacks, lines 351-357: ESC, and h as
\* the one of the four toggles followed, which takes the lock
Keyboard(key) ==
    /\ cv.main = "loop" /\ ~cv.leave
    /\ key = "h" => cv.lock = "free"
    /\ cv' = IF key = "ESC" THEN [cv EXCEPT !.running = FALSE, !.leave = TRUE]
             ELSE [cv EXCEPT !.show_help = ~cv.show_help]
    /\ UNCHANGED no_tracker_vars

\* the window is closed between two callbacks: GLUT calls close (lines
\* 373-374), the window is gone and glutMainLoop is over
Close ==
    /\ cv.main = "loop" /\ ~cv.leave
    /\ cv' = [cv EXCEPT !.running = FALSE, !.main = "left"]
    /\ UNCHANGED no_tracker_vars

\* main goes on
Main ==
    /\ cv' = main(cv)
    /\ cv' # cv
    /\ UNCHANGED no_tracker_vars

\* the module as loaded: shared = SharedData(), line 37
InitTrack ==
    /\ blocks = << >>
    /\ visible_blocks = {}
    /\ sd_blocks = << >>
    /\ step = 0
    /\ call = Call("__init__", "none", 35)
    /\ player = PlayerAt(<<0, 0, 0>>, <<10, 0, 0>>)
    /\ mouse_locked = TRUE
    /\ ray = RayResult(None, None, 0)
    /\ es = ESCall(5, ESMaxX, FALSE, None)
    /\ NoStableCraftWindow
    /\ NoQuery
    /\ NoPhysics
    /\ NoTracker

NextTrack ==
    \/ OpenCVThread
    \/ Display
    \/ \E key \in {"ESC", "h"} : Keyboard(key)
    \/ Close
    \/ Main

SpecTrack == InitTrack /\ [][NextTrack]_vars

\* the scheduler lets the OpenCV thread run whenever it can take a step
SpecTrackFair == SpecTrack /\ WF_vars(OpenCVThread)

\* erdos_straus is about to be called with n and max_x
InitES ==
    /\ blocks = << >>
    /\ visible_blocks = {}
    /\ sd_blocks = << >>
    /\ step = 0
    /\ call = Call("__init__", "none", 78)
    /\ player = PlayerAt(<<0, 0, 0>>, <<10, 0, 0>>)
    /\ mouse_locked = TRUE
    /\ ray = RayResult(None, None, 0)
    /\ es \in { ESCall(n, max_x, FALSE, None) : n \in 1..ESMaxN, max_x \in 1..ESMaxX }
    /\ NoStableCraftWindow
    /\ NoQuery
    /\ NoPhysics
    /\ NoTracker

SpecES == InitES /\ [][ErdosStraus]_vars

(***************************************************************************)
(* World generation of a StableDiffusionWorld, StableDiffusion.py lines    *)
(* 55-228.  The noise functions (sample_latent_space, lines 55-98) are    *)
(* inputs of the generation: a seed names the terrain they give, which is  *)
(* a surface height and a biome for each column and no caves.  The draws   *)
(* of random.random() and random.randint() are inputs too: a tree draw     *)
(* says whether the grass cell of a column grows a tree (line 181), how    *)
(* high its trunk is (line 198) and which leaf offsets pass line 209.      *)
(*                                                                         *)
(* CHUNK_s (line 12) is 16 and RENDER_DISTANCE (line 13) is 4 in the       *)
(* source; the model keeps the code of every loop over them and runs it    *)
(* with chunks of one column and a render distance of one chunk.           *)
(***************************************************************************)
CHUNK_s == 1

RENDER_DISTANCE == 1

\* "for y in range(64)", line 173
ColumnHeight == 64

\* "for y in range(10, 15)", line 189
WaterLevels == 10..14

\* terrains without grass: sand dunes, and a snow field of uneven height
SDSeeds == {"dunes", "snowfield"}

\* a terrain of grass at height 1
GenSeeds == {"meadow"}

\* surface_height, line 105, of the column (x, z)
surface_height(seed, x, z) ==
    IF seed = "snowfield" THEN 3 + ((x + z) % 2) ELSE 2

\* biome_type, lines 108-115, of the column (x, z)
biome_type(seed, x, z) ==
    IF seed = "dunes" THEN "desert" ELSE IF seed = "snowfield" THEN "snow" ELSE "plains"

\* the None that get_block_type returns, among the block type strings
NoType == "None"

\* StableDiffusionWorld.get_block_type, lines 100-146, for cave <= 0.2 and a
\* biome that is not forest
get_block_type(seed, x, y, z) ==
    IF y < 0 THEN "bedrock"
    ELSE IF y = 0 THEN "bedrock"
    ELSE IF y < surface_height(seed, x, z) - 5 THEN "stone"
    ELSE IF y < surface_height(seed, x, z) - 1 THEN "dirt"
    ELSE IF y = surface_height(seed, x, z) - 1
         THEN IF biome_type(seed, x, z) = "desert" THEN "sand"
              ELSE IF biome_type(seed, x, z) = "snow" THEN "snow"
              ELSE "grass"
    ELSE NoType

\* the offsets the leaf loops of lines 204-208 let through: dist <= 2
LeafOffsets ==
    { o \in (-2..2) \X (-1..1) \X (-2..2) :
        o[1] * o[1] + o[2] * o[2] + o[3] * o[3] <= 4 }

\* the random draws of one column
TreeDraw(tree, trunk_height, leaves) ==
    [tree |-> tree, trunk_height |-> trunk_height, leaves |-> leaves]

NoTree == TreeDraw(FALSE, 4, {})

\* the leaf draws followed: none passes, all pass, those level with the top pass
LeafDraws == { {}, LeafOffsets, { o \in LeafOffsets : o[2] = 0 } }

TreeDraws ==
    {NoTree} \cup { TreeDraw(TRUE, h, l) : h \in 4..6, l \in LeafDraws }

\* StableDiffusionWorld.generate_tree, lines 195-212: the trunk is written
\* whatever is there (line 200), a leaf only where nothing is (lines 211-212)
generate_tree(b, x, y, z, draw) ==
    LET trunk == { <<x, y + dy, z>> : dy \in 0..(draw.trunk_height - 1) }
        top_y == y + draw.trunk_height
        leaves == { <<x + o[1], top_y + o[2], z + o[3]>> : o \in draw.leaves }
                      \ (DOMAIN b \cup trunk)
    IN  [ p \in DOMAIN b \cup trunk \cup leaves |->
            IF p \in trunk THEN "wood"
            ELSE IF p \in leaves THEN "leaves"
            ELSE b[p] ]

\* the writes of line 177 for the cells (x, lo, z) .. (x, hi, z) of a column
write_cells(b, seed, x, z, lo, hi) ==
    LET cells == { q \in {x} \X (lo..hi) \X {z} :
                     get_block_type(seed, q[1], q[2], q[3]) # NoType }
    IN  [ q \in DOMAIN b \cup cells |->
            IF q \in cells THEN get_block_type(seed, q[1], q[2], q[3]) ELSE b[q] ]

(***************************************************************************)
(* The loop over y of lines 173-182.  It writes the cells of the column    *)
(* bottom up, and calls generate_tree right after writing a grass cell     *)
(* when the draw of line 181 passes.  get_block_type returns 'grass' at    *)
(* y = surface_height - 1 only, so the loop is: the cells up to the grass  *)
(* cell, the tree, the cells above.                                        *)
(***************************************************************************)
generate_column(b, seed, x, z, draw) ==
    IF /\ draw.tree
       /\ surface_height(seed, x, z) - 1 \in 0..(ColumnHeight - 1)
       /\ get_block_type(seed, x, surface_height(seed, x, z) - 1, z) = "grass"
    THEN write_cells(
             generate_tree(
                 write_cells(b, seed, x, z, 0, surface_height(seed, x, z) - 1),
                 x, surface_height(seed, x, z), z, draw),
             seed, x, z, surface_height(seed, x, z), ColumnHeight - 1)
    ELSE write_cells(b, seed, x, z, 0, ColumnHeight - 1)

\* the loops over x and z of lines 166-167 from the i-th column of the chunk on
RECURSIVE generate_columns(_, _, _, _, _, _)
generate_columns(b, seed, cx, cz, i, draw) ==
    IF i >= CHUNK_s * CHUNK_s THEN b
    ELSE generate_columns(
             generate_column(b, seed, cx * CHUNK_s + (i \div CHUNK_s),
                             cz * CHUNK_s + (i % CHUNK_s), draw[i]),
             seed, cx, cz, i + 1, draw)

\* the water layer, lines 187-193
generate_water(b, cx, cz) ==
    LET water == { p \in (cx * CHUNK_s..(cx + 1) * CHUNK_s - 1) \X WaterLevels
                             \X (cz * CHUNK_s..(cz + 1) * CHUNK_s - 1) :
                       p \notin DOMAIN b }
    IN  [ p \in DOMAIN b \cup water |-> IF p \in water THEN "water" ELSE b[p] ]

\* a generate_chunk without the test of lines 162-163
generate_chunk_again(b, chunks, cx, cz, seed, draw) ==
    generate_water(generate_columns(b, seed, cx, cz, 0, draw), cx, cz)

\* StableDiffusionWorld.generate_chunk, lines 159-193: the block map it leaves
generate_chunk(b, chunks, cx, cz, seed, draw) ==
    IF <<cx, cz>> \in chunks
    THEN b
    ELSE generate_water(generate_columns(b, seed, cx, cz, 0, draw), cx, cz)

\* the draws of a chunk: one tree draw for each of its columns
ChunkDraws(draws) == [ 0..(CHUNK_s * CHUNK_s - 1) -> draws ]

NoTrees == [ i \in 0..(CHUNK_s * CHUNK_s - 1) |-> NoTree ]

\* StableDiffusionWorld.get_chunk_key, lines 214-216, of a position in
\* hundredths: x // CHUNK_s and z // CHUNK_s
get_chunk_key(position) ==
    << position[1] \div (CHUNK_s * Hundredths), position[3] \div (CHUNK_s * Hundredths) >>

\* what update_visible_chunks leaves
Loaded(b, chunks, exc, line) ==
    [blocks |-> b, chunks |-> chunks, exc |-> exc, line |-> line]

\* (chunk_x, chunk_z), lines 226-227, at the i-th turn of the loops over dx, dz
chunk_in_range(p, i) ==
    << get_chunk_key(p.position)[1] + (i \div (2 * RENDER_DISTANCE + 1)) - RENDER_DISTANCE,
       get_chunk_key(p.position)[2] + (i % (2 * RENDER_DISTANCE + 1)) - RENDER_DISTANCE >>

(***************************************************************************)
(* StableDiffusionWorld.update_visible_chunks, lines 218-228, from the     *)
(* i-th chunk of its loops on.  With a float position the chunk key is a   *)
(* pair of floats: it compares equal to the key of a chunk already         *)
(* generated, so generate_chunk returns at line 163, and for a new chunk   *)
(* range(cx * CHUNK_s, ...) at line 166 raises TypeError before any write. *)
(***************************************************************************)
RECURSIVE update_visible_chunks_from(_, _, _, _, _, _)
update_visible_chunks_from(b, chunks, p, seed, draw, i) ==
    IF i >= (2 * RENDER_DISTANCE + 1) * (2 * RENDER_DISTANCE + 1)
    THEN Loaded(b, chunks, "none", 228)
    ELSE IF chunk_in_range(p, i) \in chunks
    THEN update_visible_chunks_from(b, chunks, p, seed, draw, i + 1)
    ELSE IF p.is_float
    THEN Loaded(b, chunks, "TypeError", 166)
    ELSE update_visible_chunks_from(
             generate_chunk(b, chunks, chunk_in_range(p, i)[1], chunk_in_range(p, i)[2],
                            seed, draw),
             chunks \cup {chunk_in_range(p, i)}, p, seed, draw, i + 1)

update_visible_chunks(b, chunks, p, seed, draw) ==
    update_visible_chunks_from(b, chunks, p, seed, draw, 0)

\* StableDiffusionWorld.rebuild_batch, lines 271-290: the keys of the new
\* visible_blocks
rebuild_batch(b, player_pos) ==
    { q \in DOMAIN b :
        /\ Abs(q[1] * Hundredths - player_pos[1]) < RENDER_DISTANCE * CHUNK_s * Hundredths
        /\ Abs(q[3] * Hundredths - player_pos[3]) < RENDER_DISTANCE * CHUNK_s * Hundredths
        /\ is_exposed(b, q) = "True" }

(***************************************************************************)
(* StableCraftWindow, StableDiffusion.py lines 352-555.  mouse_locked, ray *)
(* and call are those of this window.  The window is followed with the     *)
(* mouse locked, as __init__ leaves it (line 365).                         *)
(***************************************************************************)
\* the block map and the keys of visible_blocks a handler leaves
SDShown(b, v) == [blocks |-> b, visible |-> v]

\* on_mouse_press without its rebuild_batch calls
sd_on_mouse_press_stale(b, v, player_pos, r, button) ==
    IF button = "LEFT" /\ r.hit # None
    THEN SDShown(sd_remove_block(b, r.hit), v)
    ELSE IF button = "RIGHT" /\ r.adjacent # None
    THEN SDShown(sd_add_block(b, r.adjacent, "stone"), v)
    ELSE SDShown(b, v)

\* StableCraftWindow.on_mouse_press, lines 468-476; selected_block is 'stone'
\* (line 366)
sd_on_mouse_press(b, v, player_pos, r, button) ==
    IF button = "LEFT" /\ r.hit # None
    THEN SDShown(sd_remove_block(b, r.hit),
                 rebuild_batch(sd_remove_block(b, r.hit), player_pos))
    ELSE IF button = "RIGHT" /\ r.adjacent # None
    THEN SDShown(sd_add_block(b, r.adjacent, "stone"),
                 rebuild_batch(sd_add_block(b, r.adjacent, "stone"), player_pos))
    ELSE SDShown(b, v)

\* the most cells in which the player's clicks make a world differ from the
\* world as generated
SDMaxEdits == 1

\* the cells in which b differs from g
SDEdits(b, g) ==
    (DOMAIN g \ DOMAIN b) \cup (DOMAIN b \ DOMAIN g)
        \cup { q \in DOMAIN b \cap DOMAIN g : b[q] # g[q] }

\* the world of each seed as generated around the start position
SDWorlds ==
    [ seed \in SDSeeds |->
        update_visible_chunks(<< >>, {}, SDPlayerStart, seed, NoTrees).blocks ]

\* the world of a seed as generated, or nothing when no chunk was generated
SDGenerated(seed, chunks) == IF chunks = {} THEN << >> ELSE SDWorlds[seed]

SDEditBudget(b) ==
    \E g \in { SDGenerated(sd_seed, sd_chunks) } :
        Cardinality(SDEdits(b, g)) <= SDMaxEdits

\* a mouse press: StableCraftWindow.on_mouse_press, lines 461-476
SDOnMousePress(button) ==
    /\ IF ~mouse_locked
       THEN /\ mouse_locked' = TRUE
            /\ call' = Call("on_mouse_press", "none", 466)
            /\ UNCHANGED <<sd_blocks, sd_visible_blocks, ray>>
       ELSE \E r \in { raycast(sd_blocks, sd_player.position, sd_player.direction,
                               DefaultMaxDistance) } :
            \E o \in { sd_on_mouse_press(sd_blocks, sd_visible_blocks,
                                         sd_player.position, r, button) } :
                /\ SDEditBudget(o.blocks)
                /\ ray' = r
                /\ sd_blocks' = o.blocks
                /\ sd_visible_blocks' = o.visible
                /\ call' = Call("on_mouse_press", "none",
                                IF button = "LEFT" /\ r.hit # None THEN 473
                                ELSE IF button = "RIGHT" /\ r.adjacent # None THEN 476
                                ELSE 474)
                /\ UNCHANGED mouse_locked
    /\ UNCHANGED <<rest_vars, blocks, visible_blocks, step, player, es, sd_chunks, sd_seed,
                   sd_player>>

\* the views the mouse turns the player to: ahead, straight down
SDViews == { <<10, 0, 0>>, <<0, -10, 0>> }

\* a mouse motion: on_mouse_motion, lines 478-484
SDMouseMotion(direction) ==
    /\ mouse_locked
    /\ sd_player' = SDPlayerAt(sd_player.position, direction, sd_player.is_float)
    /\ call' = Call("on_mouse_motion", "none", 484)
    /\ UNCHANGED <<rest_vars, blocks, visible_blocks, sd_blocks, step, window_vars, es,
                   sd_visible_blocks, sd_chunks, sd_seed>>

\* the player is followed from x = 0 to x = SDXMax hundredths of a cell
SDXMax == 120

\* what a tick adds to position[0], in hundredths of a cell
SDMoves == {-60, 0, 60}

\* the height the player is followed at after a tick, in hundredths of a cell
SDAltitude == 1600

(***************************************************************************)
(* An update tick: StableCraftWindow.update, lines 513-555.  Lines 532-534 *)
(* add floats to the position; the fall of lines 518-549 is not followed,  *)
(* the height after a tick is SDAltitude.  Line 552 calls                  *)
(* update_visible_chunks, and nothing calls rebuild_batch.                 *)
(***************************************************************************)
SDUpdate(d) ==
    /\ sd_player.position[1] + d \in 0..SDXMax
    /\ \E p \in { SDPlayerAt(<<sd_player.position[1] + d, SDAltitude,
                               sd_player.position[3]>>,
                             sd_player.direction, TRUE) } :
       \E l \in { update_visible_chunks(sd_blocks, sd_chunks, p, sd_seed, NoTrees) } :
           /\ sd_player' = p
           /\ sd_blocks' = l.blocks
           /\ sd_chunks' = l.chunks
           /\ call' = Call("update", l.exc, IF l.exc = "none" THEN 555 ELSE l.line)
    /\ UNCHANGED <<rest_vars, blocks, visible_blocks, step, window_vars, es, sd_visible_blocks,
                   sd_seed>>

\* the R key: on_key_press, lines 500-504: a new world with a new seed
SDKeyR(seed) ==
    /\ \E l \in { update_visible_chunks(<< >>, {}, sd_player, seed, NoTrees) } :
           /\ sd_blocks' = l.blocks
           /\ sd_chunks' = l.chunks
           /\ sd_visible_blocks' =
                  IF l.exc = "none" THEN rebuild_batch(l.blocks, sd_player.position)
                  ELSE {}
           /\ call' = Call("on_key_press", l.exc, IF l.exc = "none" THEN 504 ELSE l.line)
    /\ sd_seed' = seed
    /\ UNCHANGED <<rest_vars, blocks, visible_blocks, step, window_vars, es, sd_player>>

\* StableCraftWindow.__init__, lines 353-381
InitSDW ==
    /\ blocks = << >>
    /\ visible_blocks = {}
    /\ step = 0
    /\ call = Call("__init__", "none", 381)
    /\ player = PlayerAt(<<0, 0, 0>>, <<10, 0, 0>>)
    /\ mouse_locked = TRUE
    /\ ray = RayResult(None, None, 0)
    /\ es = ESCall(5, ESMaxX, FALSE, None)
    /\ sd_seed \in SDSeeds
    /\ sd_player = SDPlayerStart
    /\ \E l \in { update_visible_chunks(<< >>, {}, SDPlayerStart, sd_seed, NoTrees) } :
           /\ sd_blocks = l.blocks
           /\ sd_chunks = l.chunks
           /\ sd_visible_blocks = rebuild_batch(l.blocks, SDPlayerStart.position)
    /\ NoQuery
    /\ NoPhysics
    /\ NoTracker

NextSDW ==
    \/ \E button \in {"LEFT", "RIGHT"} : SDOnMousePress(button)
    \/ \E direction \in SDViews : SDMouseMotion(direction)
    \/ \E d \in SDMoves : SDUpdate(d)
    \/ \E seed \in SDSeeds : SDKeyR(seed)

SpecSDW == InitSDW /\ [][NextSDW]_vars

(***************************************************************************)
(* The fall of the player of a StableCraftWindow, StableDiffusion.py lines *)
(* 513-555 with no key held: body is the velocity[1] and on_ground of its  *)
(* player, in hundredths of a cell.  The player falls from (0, 20, 0)      *)
(* until the ground loop of lines 537-542 stops it, and clicks there.      *)
(***************************************************************************)
\* ground_y, lines 537-542: the loop over y from int(position[1]) - 2, from
\* the i-th turn on
RECURSIVE ground_y_from(_, _, _)
ground_y_from(b, position, i) ==
    IF i > 3 THEN 0
    ELSE LET y == PyTrunc(position[2]) - 2 + i IN
         IF <<PyTrunc(position[1]), y, PyTrunc(position[3])>> \in DOMAIN b
         THEN y * Hundredths + 150
         ELSE ground_y_from(b, position, i + 1)

\* what a tick leaves: the player, its body, and the chunks loaded
SDTicked(p, bd, l) == [player |-> p, body |-> bd, loaded |-> l]

\* StableCraftWindow.update, lines 513-555, for a player that is not flying
\* and holds no key
sd_update(b, chunks, p, bd, seed) ==
    LET v == PyMax(bd.velocity - 2, TerminalVelocity)   \* gravity 0.02, line 520
        fallen == <<p.position[1], p.position[2] + v, p.position[3]>>
        ground_y == ground_y_from(b, fallen, 0)
        landed == fallen[2] < ground_y
        q == SDPlayerAt(<<fallen[1], IF landed THEN ground_y ELSE fallen[2], fallen[3]>>,
                        p.direction, TRUE)
    IN  SDTicked(q, Body(IF landed THEN 0 ELSE v, landed, bd.flying),
                 update_visible_chunks(b, chunks, q, seed, NoTrees))

\* a clock tick of the StableCraftWindow with no key held
SDTick ==
    /\ \E t \in { sd_update(sd_blocks, sd_chunks, sd_player, body, sd_seed) } :
           /\ sd_player' = t.player
           /\ body' = t.body
           /\ sd_blocks' = t.loaded.blocks
           /\ sd_chunks' = t.loaded.chunks
           /\ call' = Call("update", t.loaded.exc,
                           IF t.loaded.exc = "none" THEN 555 ELSE t.loaded.line)
    /\ UNCHANGED <<blocks, visible_blocks, step, window_vars, es, sd_visible_blocks,
                   sd_seed, query, collided, cv>>

\* the player clicks once it has come to rest
NextPlace ==
    \/ SDTick
    \/ \E button \in {"LEFT", "RIGHT"} : body.on_ground /\ SDOnMousePress(button)
    \/ \E direction \in SDViews : SDMouseMotion(direction)

SpecPlace == InitSDW /\ [][NextPlace]_vars

(***************************************************************************)
(* A StableDiffusionWorld driven as an object: a caller issues             *)
(* generate_chunk calls on the chunks (0,0) .. (GenXMax,0) of a meadow.    *)
(***************************************************************************)
GenXMax == 1

\* a caller's world.generate_chunk(cx, cz), with the draws it meets
GenerateChunk(cx, cz, draw) ==
    /\ sd_blocks' = generate_chunk(sd_blocks, sd_chunks, cx, cz, sd_seed, draw)
    /\ sd_chunks' = sd_chunks \cup {<<cx, cz>>}
    /\ call' = Call("generate_chunk", "none", IF <<cx, cz>> \in sd_chunks THEN 163 ELSE 193)
    /\ UNCHANGED <<rest_vars, blocks, visible_blocks, step, window_vars, es, sd_visible_blocks,
                   sd_seed, sd_player>>

\* StableDiffusionWorld.__init__, lines 19-24
InitGen ==
    /\ blocks = << >>
    /\ visible_blocks = {}
    /\ sd_blocks = << >>
    /\ step = 0
    /\ call = Call("__init__", "none", 24)
    /\ player = PlayerAt(<<0, 0, 0>>, <<10, 0, 0>>)
    /\ mouse_locked = TRUE
    /\ ray = RayResult(None, None, 0)
    /\ es = ESCall(5, ESMaxX, FALSE, None)
    /\ sd_visible_blocks = {}
    /\ sd_chunks = {}
    /\ sd_seed \in GenSeeds
    /\ sd_player = SDPlayerStart
    /\ NoQuery
    /\ NoPhysics
    /\ NoTracker

NextGen ==
    \E cx \in 0..GenXMax, draw \in ChunkDraws(TreeDraws) : GenerateChunk(cx, 0, draw)

SpecGen == InitGen /\ [][NextGen]_vars

(***************************************************************************)
(* A StableCraftWindow whose world is also driven as an object: besides    *)
(* the clicks and ticks of the window, a caller issues generate_chunk      *)
(* again on chunks that __init__ generated.                                *)
(***************************************************************************)
\* the chunks generate_chunk is called on again: (0,0) and (1,0)
NextRegen ==
    \/ \E key \in { <<0, 0>>, <<1, 0>> } : GenerateChunk(key[1], key[2], NoTrees)
    \/ \E button \in {"LEFT", "RIGHT"} : SDOnMousePress(button)
    \/ \E direction \in SDViews : SDMouseMotion(direction)
    \/ \E d \in {0} : SDUpdate(d)

SpecRegen == InitSDW /\ [][NextRegen]_vars

(***************************************************************************)
(* Exposure as the specification defines it: a position is exposed when it *)
(* is occupied and one of its six axis-aligned neighbours is not.          *)
(***************************************************************************)
Neighbours6(p) ==
    { <<p[1] + 1, p[2], p[3]>>, <<p[1] - 1, p[2], p[3]>>,
      <<p[1], p[2] + 1, p[3]>>, <<p[1], p[2] - 1, p[3]>>,
      <<p[1], p[2], p[3] + 1>>, <<p[1], p[2], p[3] - 1>> }

Exposed(b, p) == p \in DOMAIN b /\ \E n \in Neighbours6(p) : n \notin DOMAIN b

ExposureSet(b) == { p \in DOMAIN b : Exposed(b, p) }

Consistent == visible_blocks = ExposureSet(blocks)

\* C1: after every add_block or remove_block call the key set of visible_blocks
\* is exactly the set of occupied positions with an unoccupied face neighbour.
C1_ExposureSetExact == visible_blocks = ExposureSet(blocks)

\* C2: no call raises: every add_block and remove_block call returns normally.
C2_NoErrorOutcome == call.exc = "none"

\* C3: add_block on an occupied position returns silently and leaves the stored
\* block type, blocks and visible_blocks as they were.
C3_AddOccupiedNoOp ==
    \A p \in DOMAIN blocks, t \in Types :
        LET r == add_block(blocks, visible_blocks, p, t) IN
        /\ r.exc = "none"
        /\ r.blocks = blocks
        /\ r.blocks[p] = blocks[p]
        /\ r.visible_blocks = visible_blocks

\* an add_block call on an occupied position has taken the early return, in a
\* world that holds a block of each type
C3_Witness ==
    /\ call.op = "add_block" /\ call.line = 106
    /\ \E p, q \in DOMAIN blocks : blocks[p] = "GRASS" /\ blocks[q] = "BRICK"

\* C4: StableDiffusionWorld.add_block on an occupied position leaves the block
\* type stored there (and the whole map) as it was.
C4_SDAddOccupiedNoOp ==
    [][\A p \in DOMAIN sd_blocks, t \in SDTypes :
          SDAddBlock(p, t) => sd_blocks' = sd_blocks]_vars

\* C5: from a consistent state, add_block on an unoccupied position brings no
\* position other than that one into visible_blocks.
C5_AddExposesOnlyItself ==
    Consistent =>
        \A p \in Pos \ DOMAIN blocks, t \in Types :
            add_block(blocks, visible_blocks, p, t).visible_blocks \ visible_blocks
                \subseteq {p}

\* an add_block call on an unoccupied position has run its neighbour loop up
\* to the last entry of FACE_VECTORS, in a consistent world that also holds a
\* hidden block
C5_Witness ==
    /\ call.op = "add_block" /\ call.line = 117
    /\ Consistent
    /\ DOMAIN blocks \ visible_blocks # {}

\* C6: remove_block on an occupied position takes it out of blocks and of
\* visible_blocks, takes no other position out of visible_blocks, and leaves
\* every occupied face neighbour of it in visible_blocks.
C6_RemoveExposesNeighbours ==
    \A p \in DOMAIN blocks :
        LET r == remove_block(blocks, visible_blocks, p) IN
        /\ p \notin DOMAIN r.blocks
        /\ p \notin r.visible_blocks
        /\ visible_blocks \ {p} \subseteq r.visible_blocks
        /\ \A n \in Neighbours6(p) \cap DOMAIN r.blocks : n \in r.visible_blocks

\* a remove_block call on an occupied position has run, and the centre block,
\* with five of its six neighbours left, is shown
C6_Witness ==
    /\ call.op = "remove_block" /\ call.line = 136
    /\ Centre \in visible_blocks
    /\ Cardinality(Neighbours6(Centre) \cap DOMAIN blocks) = 5

\* C7: remove_block on an unoccupied position returns with blocks and
\* visible_blocks unchanged; so does a second remove_block right after a first
\* one on the same position.
C7_RemoveAbsentNoOp ==
    /\ \A p \in Pos \ DOMAIN blocks :
           LET r == remove_block(blocks, visible_blocks, p) IN
           r.exc = "none" /\ r.blocks = blocks /\ r.visible_blocks = visible_blocks
    /\ \A p \in Pos :
           LET r1 == remove_block(blocks, visible_blocks, p)
               r2 == remove_block(r1.blocks, r1.visible_blocks, p)
           IN  r2.exc = "none" /\ r2.blocks = r1.blocks
               /\ r2.visible_blocks = r1.visible_blocks

\* a remove_block call on an unoccupied position has returned, in a world that
\* holds blocks
C7_Witness ==
    /\ call.op = "remove_block" /\ call.line = 128
    /\ DOMAIN blocks # {}

\* C8: add_block(p, t) twice in a row leaves blocks and visible_blocks as one
\* add_block(p, t) leaves them.
C8_AddIdempotent ==
    \A p \in Pos, t \in Types :
        LET r1 == add_block(blocks, visible_blocks, p, t)
            r2 == add_block(r1.blocks, r1.visible_blocks, p, t)
        IN  r2.blocks = r1.blocks /\ r2.visible_blocks = r1.visible_blocks

\* an add_block call has inserted a block and was cut short at the re-check of
\* a neighbour (line 120), the block staying in blocks
C8_Witness ==
    /\ call.op = "add_block" /\ call.exc = "TypeError" /\ call.line = 120
    /\ DOMAIN blocks # {}

\* C9: for every position, is_visible and is_exposed return true exactly when
\* the position is occupied and one of its six neighbours is not, and false
\* otherwise.
C9_ExposurePredicate ==
    \A p \in Pos :
        /\ is_visible(blocks, p) = (IF Exposed(blocks, p) THEN "True" ELSE "False")
        /\ is_exposed(sd_blocks, p) = (IF Exposed(sd_blocks, p) THEN "True" ELSE "False")

\* C10: in the scenario the centre is in visible_blocks after each of the first
\* six adds and not after the seventh, and every neighbour added so far is in
\* visible_blocks.
C10_CentreScenario ==
    /\ step \in 1..6 => Centre \in visible_blocks
    /\ step = 7 => Centre \notin visible_blocks
    /\ \A k \in 2..step : Scenario[k] \in visible_blocks

\* C11: after every add_block or remove_block call, no block whose six
\* neighbours are all occupied is in visible_blocks.
C11_EnclosedNeverVisible ==
    \A p \in DOMAIN blocks :
        Neighbours6(p) \subseteq DOMAIN blocks => p \notin visible_blocks

\* C12: add_block on an unoccupied position none of whose six neighbours is
\* occupied leaves that position in visible_blocks.
C12_IsolatedAddVisible ==
    \A p \in Pos \ DOMAIN blocks, t \in Types :
        Neighbours6(p) \cap DOMAIN blocks = {} =>
            p \in add_block(blocks, visible_blocks, p, t).visible_blocks

\* an add_block call has inserted a block and run its neighbour loop to the
\* last entry of FACE_VECTORS, and each of the blocks of the world (there are
\* several) has no occupied neighbour, the one just added included
C12_Witness ==
    /\ call.op = "add_block" /\ call.line = 117
    /\ Cardinality(DOMAIN blocks) >= 2
    /\ \A p \in DOMAIN blocks :
           Neighbours6(p) \cap DOMAIN blocks = {} /\ p \in visible_blocks

(***************************************************************************)
(* The ray as the specification describes it: sample k lies k steps from   *)
(* the origin, and a sample belongs to the cell whose centre is nearest.   *)
(***************************************************************************)
\* the integer nearest to c hundredths, the even one of two equally near
NearestInt(c) ==
    CHOOSE n \in (c \div Hundredths - 1)..(c \div Hundredths + 1) :
        \/ Abs(Hundredths * n - c) * 2 < Hundredths
        \/ Abs(Hundredths * n - c) * 2 = Hundredths /\ n % 2 = 0

NearestCell(point) ==
    <<NearestInt(point[1]), NearestInt(point[2]), NearestInt(point[3])>>

\* cell q holds a point of the ray from start along direction that lies at most
\* max_distance from start (t counts hundredths of a unit of distance)
OnRay(q, start, direction, max_distance) ==
    \E t \in 0..(Hundredths * max_distance) :
        \A i \in 1..3 :
            Abs(10 * start[i] + t * direction[i] - 10 * Hundredths * q[i])
                <= 5 * Hundredths

\* C13: a hit returned by raycast, cast from where the player stands along the
\* player's view, is an occupied position, it is the cell nearest to the sample
\* where the march stopped, and the cell nearest to each earlier sample is
\* unoccupied.
C13_FirstOccupiedSample ==
    \A v \in {player}, m \in RayDistances :
        \A r \in {raycast(blocks, v.position, v.direction, m)} :
            r.hit # None =>
                /\ r.hit \in DOMAIN blocks
                /\ r.hit = NearestCell(Sample(v.position, v.direction, r.samples - 1))
                /\ \A j \in 0..(r.samples - 2) :
                       NearestCell(Sample(v.position, v.direction, j))
                           \notin DOMAIN blocks

\* a click has cast a ray that hit a block after marching past empty cells,
\* with another block farther along the same ray
C13_Witness ==
    /\ call.op = "on_mouse_press"
    /\ ray.hit \in DOMAIN blocks
    /\ ray.samples >= 2
    /\ \E k \in ray.samples..(RaySteps(DefaultMaxDistance) - 1) :
           RoundPos(Sample(player.position, player.direction, k))
               \in DOMAIN blocks \ {ray.hit}

\* C14: whenever raycast returns a hit, the second position it returns is
\* unoccupied and differs from the hit.
C14_AdjacentEmptyAndDistinct ==
    \A v \in {player}, m \in RayDistances :
        \A r \in {raycast(blocks, v.position, v.direction, m)} :
            r.hit # None =>
                r.adjacent \notin DOMAIN blocks /\ r.adjacent # r.hit

\* C15: with a single block at (2,0,0), the ray from (0,0,0) along (1,0,0) with
\* maximum distance 10 returns hit (2,0,0) and adjacent (1,0,0).
C15_BlockAtTwo ==
    DOMAIN blocks = {<<2, 0, 0>>} =>
        \A r \in {raycast(blocks, <<0, 0, 0>>, <<10, 0, 0>>, 10)} :
            r.hit = <<2, 0, 0>> /\ r.adjacent = <<1, 0, 0>>

\* the player at (0,0,0) looking along (1,0,0) has left-clicked in the world of
\* the single block (2,0,0): the ray returned (2,0,0) and (1,0,0), and the
\* block is gone
C15_Witness ==
    /\ call.op = "on_mouse_press"
    /\ player = PlayerAt(<<0, 0, 0>>, <<10, 0, 0>>)
    /\ ray.hit = <<2, 0, 0>> /\ ray.adjacent = <<1, 0, 0>>
    /\ blocks = << >>

\* C16: raycast looks at no more than max_distance / step_size samples, returns
\* None for both positions or for neither, and a hit it returns is an occupied
\* cell the ray passes through within max_distance of the origin (so that it
\* returns (None, None) when no such cell exists).
C16_NoVoxelNoHit ==
    \A v \in {player}, m \in RayDistances :
        \A r \in {raycast(blocks, v.position, v.direction, m)} :
            /\ r.samples <= 10 * m
            /\ (r.hit = None) = (r.adjacent = None)
            /\ r.hit # None =>
                   /\ r.hit \in DOMAIN blocks
                   /\ OnRay(r.hit, v.position, v.direction, m)

\* a click has cast a ray that ran out of samples without a hit, although a
\* block lies on the line of the ray, farther off than the maximum distance
C16_Witness ==
    /\ call.op = "on_mouse_press" /\ call.line = 315
    /\ ray.hit = None /\ ray.adjacent = None
    /\ ray.samples = 10 * DefaultMaxDistance
    /\ player.direction = <<10, 0, 0>>
    /\ <<0, 0, 0>> \in DOMAIN blocks

\* C17: a click with the mouse locked leaves the world unchanged when the ray
\* hits nothing; a left click with a hit removes the hit block and changes no
\* other position; a right click with a hit makes the adjacent position a BRICK
\* and changes no other position.
C17_ClickChangesOnlyTarget ==
    \A v \in {player}, button \in {"LEFT", "RIGHT"} :
        \A r \in {raycast(blocks, v.position, v.direction, DefaultMaxDistance)} :
            \A o \in {on_mouse_press(blocks, visible_blocks, r, button)} :
                /\ r.hit = None =>
                       o.blocks = blocks /\ o.visible_blocks = visible_blocks
                /\ button = "LEFT" /\ r.hit # None =>
                       o.blocks = DictDel(blocks, r.hit)
                /\ button = "RIGHT" /\ r.hit # None =>
                       o.blocks = DictSet(blocks, r.adjacent, "BRICK")

\* the methods that only look at a World
Queries == {"raycast", "is_visible", "is_block_at"}

C22_CollideKeepsClear ==
    collided.line = 379 =>
        ~ \E q \in DOMAIN blocks : BoxesIntersect(collided.new_pos, q[1], q[2], q[3])

\* C23: a non-flying player that starts at (0,0,0) over the flat ground is
\* on the ground after some tick.
C23_EventuallyOnGround == <>(body.on_ground)

\* C24: in both games a right click leaves every occupied position with the
\* block type it had, wherever the player stands and looks.
C24_RightClickKeepsBlocks ==
    /\ \A r \in {raycast(blocks, player.position, player.direction, DefaultMaxDistance)} :
           \A o \in {on_mouse_press(blocks, visible_blocks, r, "RIGHT")} :
               \A q \in DOMAIN blocks : q \in DOMAIN o.blocks /\ o.blocks[q] = blocks[q]
    /\ \A r \in {raycast(sd_blocks, sd_player.position, sd_player.direction,
                          DefaultMaxDistance)} :
           \A o \in {sd_on_mouse_press(sd_blocks, sd_visible_blocks, sd_player.position,
                                       r, "RIGHT")} :
               \A q \in DOMAIN sd_blocks :
                   q \in DOMAIN o.blocks /\ o.blocks[q] = sd_blocks[q]

\* C25: after an update tick x and z are within the world, y is at or
\* above the ground level, and the velocity of a player that is not flying
\* is at or above the terminal velocity.
C25_TickKeepsPlayerInBounds ==
    call.op = "update" =>
        /\ player.position[1] >= -WORLD_HALF * Hundredths
        /\ player.position[1] <= WORLD_HALF * Hundredths
        /\ player.position[3] >= -WORLD_HALF * Hundredths
        /\ player.position[3] <= WORLD_HALF * Hundredths
        /\ player.position[2] >= ground_level
        /\ ~body.flying => body.velocity >= TerminalVelocity

\* a tick has kept a player that stepped over the edge of the world and fell
\* below the ground level at the edge and on the ground level
C25_Witness ==
    /\ call.op = "update"
    /\ collided.new_pos # None
    /\ collided.line = 379
    /\ collided.new_pos[1] > WORLD_HALF * Hundredths
    /\ collided.new_pos[2] < ground_level
    /\ player.position[1] = WORLD_HALF * Hundredths
    /\ player.position[2] = ground_level
    /\ body.on_ground /\ ~body.flying

\* C26: a generate_chunk call for a chunk already generated, and an update
\* tick, leave blocks and chunks as they were: a block the player removed is
\* not put back.
C26_GeneratedOnce ==
    [][ (call'.op = "generate_chunk" /\ call'.line = 163) \/ call'.op = "update"
            => sd_blocks' = sd_blocks /\ sd_chunks' = sd_chunks ]_vars

\* generate_chunk has been called again on the chunk of a block the player
\* removed, and the block is still missing
C26_Witness ==
    /\ call.op = "generate_chunk" /\ call.line = 163
    /\ \E q \in DOMAIN SDWorlds[sd_seed] :
           /\ q \notin DOMAIN sd_blocks
           /\ <<q[1], q[3]>> \in { <<0, 0>>, <<1, 0>> }
    /\ sd_player.is_float

C28_StopsForGood ==
    /\ [][~cv.running => ~cv'.running]_vars
    /\ (~cv.running) ~> (cv.thread \in {"done", "raised"})
    /\ [][(cv.opened = "no" /\ ~cv.camera_ok) => ~cv'.camera_ok]_vars
    /\ [](cv.opened = "no" => cv.red = 0 /\ cv.blue = 0)

\* the thread of a camera that failed to open has returned after ESC, and
\* main has joined it
C28_Witness ==
    /\ ~cv.running
    /\ cv.opened = "no"
    /\ cv.thread = "done"
    /\ ~cv.camera_ok
    /\ cv.main = "exited"

\* within render distance of a position (in hundredths of a cell): less than
\* RENDER_DISTANCE chunks away along x and along z
WithinRenderDistance(q, position) ==
    /\ Abs(q[1] * Hundredths - position[1]) < RENDER_DISTANCE * CHUNK_s * Hundredths
    /\ Abs(q[3] * Hundredths - position[3]) < RENDER_DISTANCE * CHUNK_s * Hundredths

\* the occupied, exposed positions within render distance of a position
SDVisibleSet(b, position) ==
    { q \in DOMAIN b : Exposed(b, q) /\ WithinRenderDistance(q, position) }

C19_GenerationKeepsBlocks ==
    [][ \A q \in DOMAIN sd_blocks :
            q \in DOMAIN sd_blocks' /\ sd_blocks'[q] = sd_blocks[q] ]_vars

\* C20: when erdos_straus(n, max_x) returns a triple, x, y, z are positive
\* integers with 4xyz = n(xy + yz + zx), x <= max_x and y <= max_x; it returns
\* None only when no x, y, z with n/4 < x <= max_x, y <= max_x, y <= z solve the
\* equation; and it returns a triple for n = 5.
C20_ExactSolution ==
    es.done =>
        /\ es.ret # None =>
               /\ es.ret[1] > 0 /\ es.ret[2] > 0 /\ es.ret[3] > 0
               /\ 4 * es.ret[1] * es.ret[2] * es.ret[3]
                      = es.n * (es.ret[1] * es.ret[2] + es.ret[2] * es.ret[3]
                                + es.ret[3] * es.ret[1])
               /\ es.ret[1] <= es.max_x /\ es.ret[2] <= es.max_x
        /\ es.ret = None =>
               \A x \in 1..es.max_x, y \in 1..es.max_x :
                   4 * x > es.n /\ (4 * x - es.n) * y - es.n * x > 0 =>
                       \/ (es.n * x * y) % ((4 * x - es.n) * y - es.n * x) # 0
                       \/ (es.n * x * y) \div ((4 * x - es.n) * y - es.n * x) < y
        /\ es.n = 5 /\ es.max_x >= 4 => es.ret # None

====
